---- MODULE Spec2Model ----
(***************************************************************************)
(* A model of the GoogleSpreadsheet document cache, its credential         *)
(* resolver, its permission helpers and the GoogleSpreadsheetRow view.     *)
(*                                                                         *)
(* Every asynchronous method is a call that runs synchronously up to its   *)
(* first await (an action named after the method), stays in `pending`      *)
(* while its request is in flight, and is resumed by a response.  The        *)
(* variable last describes the step just taken: the method,                *)
(* its argument, how the step ended and the requests it issued.            *)
(***************************************************************************)
EXTENDS Integers, Sequences, FiniteSets, TLC

VARIABLES
    auth,            \* GoogleSpreadsheet.auth
    rawProperties,   \* GoogleSpreadsheet._rawProperties (Null or <<properties>>)
    rawSheets,       \* GoogleSpreadsheet._rawSheets (sheetId -> worksheet object)
    spreadsheetUrl,  \* GoogleSpreadsheet._spreadsheetUrl (Null or its segments)
    nextOid,         \* identity of the next worksheet object `new` creates
    loadedBy,        \* history: what has populated the cache (loadInfo, echo, create)
    pending,         \* the calls suspended at an await, with their request in flight
    last,            \* the step just taken
    remotePerms,     \* the remote permission list of the file (drive API)
    remoteRow,       \* the remote line of the row (Null once removed)
    rowDeleted,      \* GoogleSpreadsheetRow._deleted
    rowData          \* GoogleSpreadsheetRow._rawData (index -> value)

vars == <<auth, rawProperties, rawSheets, spreadsheetUrl, nextOid,
          loadedBy, pending, last, remotePerms, remoteRow, rowDeleted, rowData>>

docVars == <<rawProperties, rawSheets, spreadsheetUrl, nextOid, loadedBy>>

rowVars == <<rowDeleted, rowData>>

remoteVars == <<remotePerms, remoteRow>>

-----------------------------------------------------------------------------
(* Bounds of the model *)

MaxObjects == 2      \* worksheet objects ever constructed
MaxFilters == 2      \* length of a loadCells filter list
MaxRowCalls == 2     \* calls of one row awaiting their responses at a time

-----------------------------------------------------------------------------
(* JavaScript values *)

Null == <<>>                 \* null / undefined of an optional object
Some(x) == <<x>>
Undefined == -1              \* undefined of an optional number (worksheetId)
UndefStr == "<undefined>"    \* undefined of an optional string

\* JavaScript truthiness of an optional string: undefined, null and "" are falsy
TruthyStr(s) == s \notin {UndefStr, ""}
\* JavaScript truthiness of an optional number: undefined and 0 are falsy
TruthyNum(n) == n \notin {Undefined, 0}

NoError == "none"
ErrInvalidAuth == "Invalid auth"

-----------------------------------------------------------------------------
(* Credentials: any object; what counts is which of the four distinguishing *)
(* fields it has and which token each path yields.                          *)

AuthFields == {"apiKey", "authorize", "getAccessToken", "token"}
TokenValues == {UndefStr, "", "tok"}
KeyValues == {"", "key"}

\* fields: the keys the `in` operator finds; apiKey: auth.apiKey;
\* access_token: auth.credentials.access_token after authorize();
\* fetched: (await auth.getAccessToken()).token; token: auth.token
Credentials ==
    { c \in [fields : SUBSET AuthFields, apiKey : KeyValues \cup {UndefStr},
             access_token : TokenValues, fetched : TokenValues, token : TokenValues] :
        /\ ("apiKey" \in c.fields) = (c.apiKey # UndefStr)
        /\ ("authorize" \notin c.fields) => c.access_token = UndefStr
        /\ ("getAccessToken" \notin c.fields) => c.fetched = UndefStr
        /\ ("token" \notin c.fields) => c.token = UndefStr }

getAuthMode(a) ==
    IF "apiKey" \in a.fields THEN "API_KEY"
    ELSE IF "authorize" \in a.fields THEN "JWT"
    ELSE IF "getAccessToken" \in a.fields THEN "OAUTH"
    ELSE IF "token" \in a.fields THEN "RAW_ACCESS_TOKEN"
    ELSE ErrInvalidAuth

\* the token the non-api-key branches leave in authToken
authTokenOf(a) ==
    IF "authorize" \in a.fields THEN a.access_token
    ELSE IF "getAccessToken" \in a.fields THEN a.fetched
    ELSE IF "token" \in a.fields THEN a.token
    ELSE UndefStr

\* a slip: only a missing token is refused, an empty one is sent
getRequestAuthConfig_emptyTokenSent(a) ==
    IF "apiKey" \in a.fields
    THEN [threw |-> NoError, params |-> Some([key |-> a.apiKey]), headers |-> Null]
    ELSE IF authTokenOf(a) = UndefStr
    THEN [threw |-> ErrInvalidAuth, params |-> Null, headers |-> Null]
    ELSE [threw |-> NoError, params |-> Null,
          headers |-> Some([Authorization |-> <<"Bearer", authTokenOf(a)>>])]

\* the returned object has a params key or a headers key, or the call throws
getRequestAuthConfig(a) ==
    IF "apiKey" \in a.fields
    THEN [threw |-> NoError, params |-> Some([key |-> a.apiKey]), headers |-> Null]
    ELSE IF ~TruthyStr(authTokenOf(a))
    THEN [threw |-> ErrInvalidAuth, params |-> Null, headers |-> Null]
    ELSE [threw |-> NoError, params |-> Null,
          headers |-> Some([Authorization |-> <<"Bearer", authTokenOf(a)>>])]

-----------------------------------------------------------------------------
(* Values that cross the wire *)

\* the sheet ids of the model; 0 is the id of a document's first sheet
SheetIds == {0, 1}
SheetTitles == {"A", "B"}
DocTitles == {"T1", "T2"}
PropertyNames == {"title", "locale", "timeZone", "autoRecalc", "defaultFormat",
                  "spreadsheetTheme", "iterativeCalculationSettings"}

SpreadsheetProperties ==
    [title : DocTitles, locale : {"en"}, timeZone : {"UTC"}, autoRecalc : {"ON_CHANGE"},
     defaultFormat : {"fmt"}, spreadsheetTheme : {"theme"},
     iterativeCalculationSettings : {"iter"}]

WorksheetProperties == [sheetId : SheetIds, title : SheetTitles]

\* the grid data of a sheet in a response: undefined unless grid data was asked for
GridData(withData) == IF withData THEN {"cells"} ELSE {UndefStr}

SheetInfos(withData) == [properties : WorksheetProperties, data : GridData(withData)]

\* the sheets list of a response: the remote lists every sheet once, here in
\* the order of the ids
SheetLists(withData) ==
    { s \in UNION { [1..n -> SheetInfos(withData)] : n \in 0..Cardinality(SheetIds) } :
        \A i, j \in 1..Len(s) : i < j => s[i].properties.sheetId < s[j].properties.sheetId }

\* response.data.spreadsheetUrl, as path segments
EditUrl == <<"docs.google.com", "spreadsheets", "d", "ID", "/edit">>

-----------------------------------------------------------------------------
(* GoogleSpreadsheetWorksheet: its constructor and updateRawData *)

NewWorksheet(oid, properties, data) ==
    [oid |-> oid, rawProperties |-> properties, cells |-> data]

updateRawData(ws, properties, data) ==
    [ws EXCEPT !.rawProperties = properties,
               !.cells = IF data = UndefStr THEN @ ELSE data]

-----------------------------------------------------------------------------
(* The cache of a document: c = [rawProperties, rawSheets, nextOid] *)

Cache == [rawProperties |-> rawProperties, rawSheets |-> rawSheets, nextOid |-> nextOid]

EmptySheets == [i \in {} |-> Null]

\* a slip: properties that are cached already are kept, the first response wins
updateRawProperties_keepFirst(c, newProperties) ==
    IF c.rawProperties = Null THEN [c EXCEPT !.rawProperties = Some(newProperties)] ELSE c

_updateRawProperties(c, newProperties) ==
    [c EXCEPT !.rawProperties = Some(newProperties)]

\* a slip: an entry that exists is left as it is
updateOrCreateSheet_createOnly(c, sheetInfo) ==
    LET sheetId == sheetInfo.properties.sheetId
    IN  IF sheetId \notin DOMAIN c.rawSheets
        THEN [c EXCEPT !.rawSheets =
                           [i \in (DOMAIN @) \cup {sheetId} |->
                               IF i = sheetId
                               THEN NewWorksheet(c.nextOid, sheetInfo.properties,
                                                 sheetInfo.data)
                               ELSE @[i]],
                       !.nextOid = @ + 1]
        ELSE c

\* a slip: the entry is replaced by a new worksheet object every time
updateOrCreateSheet_alwaysNew(c, sheetInfo) ==
    [c EXCEPT !.rawSheets =
                  [i \in (DOMAIN @) \cup {sheetInfo.properties.sheetId} |->
                      IF i = sheetInfo.properties.sheetId
                      THEN NewWorksheet(c.nextOid, sheetInfo.properties, sheetInfo.data)
                      ELSE @[i]],
              !.nextOid = @ + 1]

\* a slip: a snapshot that carries grid data replaces the worksheet object
updateOrCreateSheet_replaceOnData(c, sheetInfo) ==
    LET sheetId == sheetInfo.properties.sheetId
    IN  IF sheetId \notin DOMAIN c.rawSheets \/ sheetInfo.data # UndefStr
        THEN [c EXCEPT !.rawSheets =
                           [i \in (DOMAIN @) \cup {sheetId} |->
                               IF i = sheetId
                               THEN NewWorksheet(c.nextOid, sheetInfo.properties,
                                                 sheetInfo.data)
                               ELSE @[i]],
                       !.nextOid = @ + 1]
        ELSE [c EXCEPT !.rawSheets[sheetId] =
                           updateRawData(@, sheetInfo.properties, sheetInfo.data)]

_updateOrCreateSheet(c, sheetInfo) ==
    LET properties == sheetInfo.properties
        data == sheetInfo.data
        sheetId == properties.sheetId
    IN  IF sheetId \notin DOMAIN c.rawSheets
        THEN [c EXCEPT !.rawSheets =
                           [i \in (DOMAIN @) \cup {sheetId} |->
                               IF i = sheetId
                               THEN NewWorksheet(c.nextOid, properties, data)
                               ELSE @[i]],
                       !.nextOid = @ + 1]
        ELSE [c EXCEPT !.rawSheets[sheetId] = updateRawData(@, properties, data)]

\* _.each(sheets, (s) => this._updateOrCreateSheet(s))
RECURSIVE eachSheet(_, _)
eachSheet(c, sheets) ==
    IF sheets = <<>> THEN c
    ELSE eachSheet(_updateOrCreateSheet(c, Head(sheets)), Tail(sheets))

\* what _makeSingleUpdateRequest and _makeBatchUpdateRequest do with a response
applyEcho(c, updatedSpreadsheet) ==
    eachSheet(_updateRawProperties(c, updatedSpreadsheet.properties),
              updatedSpreadsheet.sheets)

SetCache(c) ==
    /\ rawProperties' = c.rawProperties
    /\ rawSheets' = c.rawSheets
    /\ nextOid' = c.nextOid

\* the model constructs at most MaxObjects worksheet objects
Fits(c) == c.nextOid <= MaxObjects + 1

-----------------------------------------------------------------------------
(* Accessors: the value read, or the error thrown *)

ErrNotLoaded == "You must call doc.loadInfo() before accessing this property"

\* a slip: cached worksheets count as loaded
ensureInfoLoaded_sheetsCount ==
    IF rawProperties = Null /\ DOMAIN rawSheets = {} THEN ErrNotLoaded ELSE NoError

_ensureInfoLoaded == IF rawProperties = Null THEN ErrNotLoaded ELSE NoError

\* reading a key of null is a TypeError
_getProp(param) ==
    IF _ensureInfoLoaded # NoError THEN [threw |-> _ensureInfoLoaded, value |-> Null]
    ELSE IF rawProperties = Null THEN [threw |-> "TypeError", value |-> Null]
    ELSE [threw |-> NoError, value |-> Some(rawProperties[1][param])]

sheetCount ==
    IF _ensureInfoLoaded # NoError THEN [threw |-> _ensureInfoLoaded, value |-> Null]
    ELSE [threw |-> NoError, value |-> Some(Cardinality(DOMAIN rawSheets))]

sheetsById ==
    IF _ensureInfoLoaded # NoError THEN [threw |-> _ensureInfoLoaded, value |-> Null]
    ELSE [threw |-> NoError, value |-> Some(rawSheets)]

\* _.sortBy(this._rawSheets, index): the worksheet objects
sheetsByIndex ==
    IF _ensureInfoLoaded # NoError THEN [threw |-> _ensureInfoLoaded, value |-> Null]
    ELSE [threw |-> NoError,
          value |-> Some({rawSheets[i].oid : i \in DOMAIN rawSheets})]

\* _.keyBy(this._rawSheets, title): the titles that are keys
sheetsByTitle ==
    IF _ensureInfoLoaded # NoError THEN [threw |-> _ensureInfoLoaded, value |-> Null]
    ELSE [threw |-> NoError,
          value |-> Some({rawSheets[i].rawProperties.title : i \in DOMAIN rawSheets})]

-----------------------------------------------------------------------------
(* Requests, suspended calls and steps *)

ErrRequestFailed == "Request failed"

\* _setAxiosRequestAuth: every request of either axios instance resolves the
\* credential afresh; a credential that does not resolve rejects the request
\* before it is sent
_setAxiosRequestAuth(config) == [config EXCEPT !.auth = getRequestAuthConfig(auth)]

sheetsApi(method, url, params, data) ==
    _setAxiosRequestAuth([api |-> "sheets", method |-> method, url |-> url,
                          params |-> params, data |-> data, auth |-> Null])

driveApi(method, url, params, data) ==
    _setAxiosRequestAuth([api |-> "drive", method |-> method, url |-> url,
                          params |-> params, data |-> data, auth |-> Null])

\* a call suspended at an await: the method, where it waits, what its
\* continuation still needs, whether the request asked for grid data,
\* whether the request left the client, and whether the response of a call
\* issued after this one has already arrived
Call(op, stage, arg, req, withData) ==
    [op |-> op, stage |-> stage, arg |-> arg, withData |-> withData,
     sentOut |-> req.auth.threw = NoError, overtaken |-> FALSE]

\* the same call waiting at its next await
NextStage(call, stage, arg, req) ==
    [Call(call.op, stage, arg, req, FALSE) EXCEPT !.overtaken = call.overtaken]

\* a step of a method: phase is "call" (the call up to its first await) or
\* "resume" (a continuation); outcome is "pending" (suspended at an await),
\* "returned" or the error thrown; sent lists the requests the step issued;
\* resp is the response that resumed it; late tells that the response of a call
\* issued later had arrived before
Event(op, arg, outcome, sent, resp) ==
    [op |-> op, phase |-> "call", arg |-> arg, outcome |-> outcome, sent |-> sent,
     resp |-> resp, late |-> FALSE]

Resumed(op, arg, outcome, sent, resp) ==
    [op |-> op, phase |-> "resume", arg |-> arg, outcome |-> outcome, sent |-> sent,
     resp |-> resp, late |-> FALSE]

\* the continuation of a call, resumed by a response that arrived after the
\* response of a call issued later when late is TRUE
Arrived(call, event) == [event EXCEPT !.late = call.overtaken]

\* the call at position i leaves the calls in flight, which are kept in the
\* order they were issued: the ones issued before it have been overtaken
RemoveAt(seq, i) ==
    [k \in 1..(Len(seq) - 1) |->
        IF k < i THEN [seq[k] EXCEPT !.overtaken = TRUE] ELSE seq[k + 1]]

\* the step suspends the call on its request
Suspend(op, stage, arg, req, withData) ==
    /\ pending' = Append(pending, Call(op, stage, arg, req, withData))
    /\ last' = Event(op, arg, "pending", <<req>>, Null)

-----------------------------------------------------------------------------
(* loadInfo and resetLocalCache *)

loadInfo(includeCells) ==
    /\ Suspend("loadInfo", "get", Null,
               sheetsApi("GET", "/", [includeGridData |-> includeCells], Null),
               includeCells)
    /\ UNCHANGED <<auth, docVars, remoteVars, rowVars>>

LoadInfoResponses(call) ==
    [spreadsheetUrl : {EditUrl}, properties : SpreadsheetProperties,
     sheets : SheetLists(call.withData)]

\* a slip: the worksheet map is rebuilt from the sheets the response lists
loadInfoResumed_rebuild(i, data) ==
    LET call == pending[i]
        c == eachSheet([Cache EXCEPT !.rawProperties = Some(data.properties),
                                     !.rawSheets = EmptySheets], data.sheets)
    IN  /\ call.op = "loadInfo"
        /\ call.sentOut
        /\ Fits(c)
        /\ spreadsheetUrl' = data.spreadsheetUrl
        /\ SetCache(c)
        /\ loadedBy' = loadedBy \cup {"loadInfo"}
        /\ pending' = RemoveAt(pending, i)
        /\ last' = Arrived(call, Resumed("loadInfo", Null, "returned", <<>>, Some(data)))
        /\ UNCHANGED <<auth, remoteVars, rowVars>>

loadInfoResumed(i, data) ==
    LET call == pending[i]
        c == eachSheet([Cache EXCEPT !.rawProperties = Some(data.properties)], data.sheets)
    IN  /\ call.op = "loadInfo"
        /\ call.sentOut
        /\ Fits(c)
        /\ spreadsheetUrl' = data.spreadsheetUrl
        /\ SetCache(c)
        /\ loadedBy' = loadedBy \cup {"loadInfo"}
        /\ pending' = RemoveAt(pending, i)
        /\ last' = Arrived(call, Resumed("loadInfo", Null, "returned", <<>>, Some(data)))
        /\ UNCHANGED <<auth, remoteVars, rowVars>>

resetLocalCache ==
    /\ rawProperties' = Null
    /\ rawSheets' = EmptySheets
    /\ last' = Event("resetLocalCache", Null, "returned", <<>>, Null)
    /\ UNCHANGED <<auth, spreadsheetUrl, nextOid, loadedBy, pending,
                   remoteVars, rowVars>>

-----------------------------------------------------------------------------
(* _makeSingleUpdateRequest, _makeBatchUpdateRequest and the methods on them *)

\* the request _makeSingleUpdateRequest posts
singleUpdateRequest(requestType, requestParams) ==
    sheetsApi("POST", ":batchUpdate", Null,
              [requests |-> <<[type |-> requestType, params |-> requestParams]>>,
               includeSpreadsheetInResponse |-> TRUE,
               responseIncludeGridData |-> FALSE])

_makeSingleUpdateRequest(op, arg, requestType, requestParams) ==
    /\ Suspend(op, "batchUpdate", arg, singleUpdateRequest(requestType, requestParams),
               FALSE)

\* utils.getFieldMask: the keys of the object
getFieldMask(properties) == DOMAIN properties

updateProperties(properties) ==
    /\ _makeSingleUpdateRequest("updateProperties", Null,
           "updateSpreadsheetProperties",
           [properties |-> properties, fields |-> getFieldMask(properties)])
    /\ UNCHANGED <<auth, docVars, remoteVars, rowVars>>

\* a slip: nothing is left out of the object
omit_nothing(object, keys) == object

\* _.omit(object, ...keys): the object without the keys
omit(object, keys) == [k \in (DOMAIN object) \ keys |-> object[k]]

\* properties: [title, headerValues (Null or <<values>>), headerRowIndex]
addSheet(properties) ==
    /\ _makeSingleUpdateRequest("addSheet", properties, "addSheet",
           [properties |-> omit(properties, {"headerValues", "headerRowIndex"})])
    /\ UNCHANGED <<auth, docVars, remoteVars, rowVars>>

deleteSheet(sheetId) ==
    /\ _makeSingleUpdateRequest("deleteSheet", sheetId, "deleteSheet",
                                [sheetId |-> sheetId])
    /\ UNCHANGED <<auth, docVars, remoteVars, rowVars>>

addNamedRange(name, range, namedRangeId) ==
    /\ _makeSingleUpdateRequest("addNamedRange", Null, "addNamedRange",
           [name |-> name, namedRangeId |-> namedRangeId, range |-> range])
    /\ UNCHANGED <<auth, docVars, remoteVars, rowVars>>

deleteNamedRange(namedRangeId) ==
    /\ _makeSingleUpdateRequest("deleteNamedRange", Null, "deleteNamedRange",
                                [namedRangeId |-> namedRangeId])
    /\ UNCHANGED <<auth, docVars, remoteVars, rowVars>>

\* responseRanges: UndefStr, "*" or a range
_makeBatchUpdateRequest(requests, responseRanges) ==
    /\ Suspend("_makeBatchUpdateRequest", Null,
               Null,
               sheetsApi("POST", ":batchUpdate", Null,
                         [requests |-> requests,
                          includeSpreadsheetInResponse |-> TRUE,
                          responseIncludeGridData |-> TruthyStr(responseRanges),
                          responseRanges |->
                              IF TruthyStr(responseRanges) /\ responseRanges # "*"
                              THEN responseRanges ELSE UndefStr]),
               TruthyStr(responseRanges))
    /\ UNCHANGED <<auth, docVars, remoteVars, rowVars>>

SingleUpdateOps == {"updateProperties", "addSheet", "deleteSheet", "addNamedRange",
                    "deleteNamedRange", "row.delete"}

\* response.data of a batchUpdate; the reply to addSheet names a sheet of the
\* updated spreadsheet
BatchUpdateResponses(call) ==
    { d \in [updatedSpreadsheet : [properties : SpreadsheetProperties,
                                   sheets : SheetLists(call.withData)],
             replies : { <<[properties |-> [sheetId |-> id]]>> : id \in SheetIds }] :
        IF call.op = "addSheet"
        THEN \E k \in 1..Len(d.updatedSpreadsheet.sheets) :
                d.updatedSpreadsheet.sheets[k].properties.sheetId
                    = d.replies[1].properties.sheetId
        ELSE d.replies[1].properties.sheetId = 0 }

\* the echo is applied; the method that awaited _makeSingleUpdateRequest goes on
resumeCommon(i, c, outcome, sent, data) ==
    /\ Fits(c)
    /\ SetCache(c)
    /\ loadedBy' = loadedBy \cup {"echo"}
    /\ last' = Arrived(pending[i],
                       Resumed(pending[i].op, pending[i].arg, outcome, sent, Some(data)))

simpleUpdateResumed(i, data) ==
    LET call == pending[i]
    IN  /\ call.op \in {"updateProperties", "addNamedRange", "deleteNamedRange",
                        "_makeBatchUpdateRequest"}
        /\ call.sentOut
        /\ resumeCommon(i, applyEcho(Cache, data.updatedSpreadsheet), "returned", <<>>, data)
        /\ pending' = RemoveAt(pending, i)
        /\ UNCHANGED <<auth, spreadsheetUrl, remoteVars, rowVars>>

\* the eviction forgotten: the map is left as the echo made it
deleteKey_keep(sheets, sheetId) == sheets

\* delete this._rawSheets[sheetId]
deleteKey(sheets, sheetId) == [k \in (DOMAIN sheets) \ {sheetId} |-> sheets[k]]

deleteSheetResumed(i, data) ==
    LET call == pending[i]
        c == applyEcho(Cache, data.updatedSpreadsheet)
    IN  /\ call.op = "deleteSheet"
        /\ call.sentOut
        /\ resumeCommon(i, [c EXCEPT !.rawSheets = deleteKey(@, call.arg)],
                        "returned", <<>>, data)
        /\ pending' = RemoveAt(pending, i)
        /\ UNCHANGED <<auth, spreadsheetUrl, remoteVars, rowVars>>

\* GoogleSpreadsheetWorksheet.setHeaderRow: one write of the header cells
setHeaderRowRequest(sheetId, headerValues, headerRowIndex) ==
    sheetsApi("PUT", "/values/headerRow", Null,
              [sheetId |-> sheetId, values |-> headerValues, row |-> headerRowIndex])

addSheetResumed(i, data) ==
    LET call == pending[i]
        c == applyEcho(Cache, data.updatedSpreadsheet)
        newSheetId == data.replies[1].properties.sheetId
        req == setHeaderRowRequest(newSheetId, call.arg.headerValues[1],
                                   call.arg.headerRowIndex)
    IN  /\ call.op = "addSheet" /\ call.stage = "batchUpdate"
        /\ call.sentOut
        /\ IF call.arg.headerValues # Null
           THEN /\ resumeCommon(i, c, "pending", <<req>>, data)
                /\ pending' = [pending EXCEPT ![i] =
                                  NextStage(call, "setHeaderRow", call.arg, req)]
           ELSE /\ resumeCommon(i, c, "returned", <<>>, data)
                /\ pending' = RemoveAt(pending, i)
        /\ UNCHANGED <<auth, spreadsheetUrl, remoteVars, rowVars>>

addSheetHeaderResumed(i) ==
    LET call == pending[i]
    IN  /\ call.op = "addSheet" /\ call.stage = "setHeaderRow"
        /\ call.sentOut
        /\ pending' = RemoveAt(pending, i)
        /\ last' = Resumed("addSheet", call.arg, "returned", <<>>, Null)
        /\ UNCHANGED <<auth, docVars, remoteVars, rowVars>>

\* a retry: the failed request is issued again and the call goes on waiting
awaitRejected_retry(i) ==
    LET call == pending[i]
    IN  /\ UNCHANGED pending
        /\ last' = Resumed(call.op, call.arg, "pending", <<[method |-> "retry"]>>, Null)
        /\ UNCHANGED <<auth, docVars, remoteVars, rowVars>>

\* an awaited request fails: no method catches, the error reaches the caller
awaitRejected(i) ==
    LET call == pending[i]
    IN  /\ pending' = RemoveAt(pending, i)
        /\ last' = Resumed(call.op, call.arg,
                         IF call.sentOut THEN ErrRequestFailed ELSE ErrInvalidAuth,
                           <<>>, Null)
        /\ UNCHANGED <<auth, docVars, remoteVars, rowVars>>

-----------------------------------------------------------------------------
(* loadCells *)

ErrOnlyA1 == "Only A1 ranges are supported when fetching cells with read-only access"
ErrBadFilter == "Each filter must be an A1 range string or a gridrange object"

A1Filter == [kind |-> "string", v |-> "A1:B2"]
GridFilter == [kind |-> "object", v |-> "gridRange"]
UndefinedFilter == [kind |-> "undefined", v |-> UndefStr]
DataFilters == {A1Filter, GridFilter}

\* the filters argument: nothing, one filter, or an array of filters
FilterArgs ==
    {[shape |-> "undefined", items |-> <<>>]}
        \cup { [shape |-> "single", items |-> <<f>>] : f \in DataFilters }
        \cup { [shape |-> "array", items |-> fs] :
                 fs \in UNION { [1..n -> DataFilters] : n \in 0..MaxFilters } }

\* _.isArray(filters) ? filters : [filters]
filtersArray(filters) ==
    IF filters.shape = "array" THEN filters.items
    ELSE IF filters.shape = "single" THEN filters.items
    ELSE <<UndefinedFilter>>

\* a slip: a grid range is passed on under read-only access too
mapFilter_noReadOnlyCheck(filter, readOnlyMode) ==
    IF filter.kind = "string"
    THEN [threw |-> NoError,
          value |-> IF readOnlyMode THEN [wrap |-> "none", v |-> filter.v]
                                    ELSE [wrap |-> "a1Range", v |-> filter.v]]
    ELSE IF filter.kind = "object"
    THEN [threw |-> NoError, value |-> [wrap |-> "gridRange", v |-> filter.v]]
    ELSE [threw |-> ErrBadFilter, value |-> Null]

\* the callback of _.map over one filter: the mapped value or the error thrown
mapFilter(filter, readOnlyMode) ==
    IF filter.kind = "string"
    THEN [threw |-> NoError,
          value |-> IF readOnlyMode THEN [wrap |-> "none", v |-> filter.v]
                                    ELSE [wrap |-> "a1Range", v |-> filter.v]]
    ELSE IF filter.kind = "object"
    THEN IF readOnlyMode
         THEN [threw |-> ErrOnlyA1, value |-> Null]
         ELSE [threw |-> NoError, value |-> [wrap |-> "gridRange", v |-> filter.v]]
    ELSE [threw |-> ErrBadFilter, value |-> Null]

\* _.map(filtersArray, ...): the first filter that throws ends the map
RECURSIVE mapFilters(_, _)
mapFilters(fs, readOnlyMode) ==
    IF fs = <<>> THEN [threw |-> NoError, value |-> <<>>]
    ELSE LET first == mapFilter(Head(fs), readOnlyMode)
             rest == mapFilters(Tail(fs), readOnlyMode)
         IN  IF first.threw # NoError THEN [threw |-> first.threw, value |-> <<>>]
             ELSE IF rest.threw # NoError THEN rest
             ELSE [threw |-> NoError, value |-> <<first.value>> \o rest.value]

loadCellsRequest(dataFilters) ==
    IF getAuthMode(auth) = "API_KEY"
    THEN sheetsApi("GET", "/", [includeGridData |-> TRUE, ranges |-> dataFilters], Null)
    ELSE sheetsApi("POST", ":getByDataFilter", Null,
                   [includeGridData |-> TRUE, dataFilters |-> dataFilters])

loadCells(filters) ==
    LET readOnlyMode == getAuthMode(auth) = "API_KEY"
        mapped == mapFilters(filtersArray(filters), readOnlyMode)
    IN  /\ IF getAuthMode(auth) = ErrInvalidAuth
           THEN /\ last' = Event("loadCells", filters, ErrInvalidAuth, <<>>, Null)
                /\ UNCHANGED pending
           ELSE IF mapped.threw # NoError
           THEN /\ last' = Event("loadCells", filters, mapped.threw, <<>>, Null)
                /\ UNCHANGED pending
           ELSE /\ pending' = Append(pending,
                       Call("loadCells", "fetch", Null, loadCellsRequest(mapped.value), TRUE))
                /\ last' = Event("loadCells", filters, "pending",
                                 <<loadCellsRequest(mapped.value)>>, Null)
        /\ UNCHANGED <<auth, docVars, remoteVars, rowVars>>

loadCellsResumed(i, data) ==
    LET call == pending[i]
        c == eachSheet(Cache, data.sheets)
    IN  /\ call.op = "loadCells"
        /\ call.sentOut
        /\ Fits(c)
        /\ SetCache(c)
        /\ pending' = RemoveAt(pending, i)
        /\ last' = Resumed("loadCells", Null, "returned", <<>>, Some(data))
        /\ UNCHANGED <<auth, spreadsheetUrl, loadedBy, remoteVars, rowVars>>

-----------------------------------------------------------------------------
(* _downloadAs *)

ErrUnsupportedFileType == "unsupported export fileType"
ErrMustSpecifyWorksheet == "Must specify worksheetId when exporting"
ErrCannotSpecifyWorksheet == "Cannot specify worksheetId when exporting"
ErrNotFullyLoaded == "Cannot export sheet that is not fully loaded"

ExportErrors == {ErrUnsupportedFileType, ErrMustSpecifyWorksheet, ErrCannotSpecifyWorksheet}

\* EXPORT_CONFIG[fileType].singleWorksheet, undefined read as false
EXPORT_CONFIG ==
    [html |-> FALSE, zip |-> FALSE, xlsx |-> FALSE, ods |-> FALSE,
     csv |-> TRUE, tsv |-> TRUE, pdf |-> TRUE]

FileTypes == (DOMAIN EXPORT_CONFIG) \cup {"docx"}
WorksheetIdArgs == {Undefined} \cup SheetIds

\* the checks of the arguments, in order: the error thrown or NoError
downloadAsCheck(fileType, worksheetId) ==
    IF fileType \notin DOMAIN EXPORT_CONFIG THEN ErrUnsupportedFileType
    ELSE IF EXPORT_CONFIG[fileType]
    THEN IF worksheetId = Undefined THEN ErrMustSpecifyWorksheet ELSE NoError
    ELSE IF TruthyNum(worksheetId) THEN ErrCannotSpecifyWorksheet ELSE NoError

\* url.replace(from, to): the first occurrence
RECURSIVE replace(_, _, _)
replace(url, from, to) ==
    IF url = <<>> THEN <<>>
    ELSE IF Head(url) = from THEN <<to>> \o Tail(url)
    ELSE <<Head(url)>> \o replace(Tail(url), from, to)

downloadAsRequest(fileType, worksheetId) ==
    sheetsApi("GET", replace(spreadsheetUrl, "/edit", "/export"),
              [id |-> "ID",
               format |-> IF fileType = "html" THEN "zip" ELSE fileType,
               gid |-> IF TruthyNum(worksheetId) THEN worksheetId ELSE Undefined],
              Null)

\* a slip: the export asks whether the properties are loaded, not the url
downloadAs_checksProperties(fileType, worksheetId) ==
    /\ IF downloadAsCheck(fileType, worksheetId) # NoError
       THEN /\ last' = Event("_downloadAs", <<fileType, worksheetId>>,
                             downloadAsCheck(fileType, worksheetId), <<>>, Null)
            /\ UNCHANGED pending
       ELSE IF rawProperties = Null
       THEN /\ last' = Event("_downloadAs", <<fileType, worksheetId>>,
                             ErrNotFullyLoaded, <<>>, Null)
            /\ UNCHANGED pending
       ELSE /\ pending' = Append(pending,
                   Call("_downloadAs", "get", Null,
                        downloadAsRequest(fileType, worksheetId), FALSE))
            /\ last' = Event("_downloadAs", <<fileType, worksheetId>>, "pending",
                             <<downloadAsRequest(fileType, worksheetId)>>, Null)
    /\ UNCHANGED <<auth, docVars, remoteVars, rowVars>>

_downloadAs(fileType, worksheetId) ==
    /\ IF downloadAsCheck(fileType, worksheetId) # NoError
       THEN /\ last' = Event("_downloadAs", <<fileType, worksheetId>>,
                             downloadAsCheck(fileType, worksheetId), <<>>, Null)
            /\ UNCHANGED pending
       ELSE IF spreadsheetUrl = Null
       THEN /\ last' = Event("_downloadAs", <<fileType, worksheetId>>,
                             ErrNotFullyLoaded, <<>>, Null)
            /\ UNCHANGED pending
       ELSE /\ pending' = Append(pending,
                   Call("_downloadAs", "get", Null,
                        downloadAsRequest(fileType, worksheetId), FALSE))
            /\ last' = Event("_downloadAs", <<fileType, worksheetId>>, "pending",
                             <<downloadAsRequest(fileType, worksheetId)>>, Null)
    /\ UNCHANGED <<auth, docVars, remoteVars, rowVars>>

downloadAsResumed(i) ==
    LET call == pending[i]
    IN  /\ call.op = "_downloadAs"
        /\ call.sentOut
        /\ pending' = RemoveAt(pending, i)
        /\ last' = Resumed("_downloadAs", Null, "returned", <<>>, Some("bytes"))
        /\ UNCHANGED <<auth, docVars, remoteVars, rowVars>>

-----------------------------------------------------------------------------
(* createNewSpreadsheetDocument: the model follows the document it returns *)

ErrApiKeyCreate == "Cannot use api key only to create a new spreadsheet"

\* a slip: the guard against an api key is missing
createGuard_none(a) == NoError

\* the guard at the head of the function: the error thrown, or NoError
createGuard(a) == IF "apiKey" \in a.fields THEN ErrApiKeyCreate ELSE NoError

createRequest(a, properties) ==
    [api |-> "axios", method |-> "POST", url |-> "SHEETS_API_BASE_URL", params |-> Null,
     data |-> [properties |-> properties], auth |-> getRequestAuthConfig(a)]

CreateResponses ==
    [spreadsheetUrl : {EditUrl}, properties : SpreadsheetProperties,
     sheets : SheetLists(FALSE)]

\* the constructor: new GoogleSpreadsheet(spreadsheetId, auth)
constructed == [rawProperties |-> Null, rawSheets |-> EmptySheets, spreadsheetUrl |-> Null]

\* resp records the credential resolution, once it has been made
createFails(a, properties) ==
    LET authConfig == getRequestAuthConfig(a)
    IN  /\ \/ /\ createGuard(a) # NoError
              /\ last' = Event("createNewSpreadsheetDocument", a, createGuard(a), <<>>, Null)
           \/ /\ createGuard(a) = NoError
              /\ authConfig.threw # NoError
              /\ last' = Event("createNewSpreadsheetDocument", a, authConfig.threw, <<>>,
                               Some([authConfig |-> authConfig]))
           \/ /\ createGuard(a) = NoError
              /\ authConfig.threw = NoError
              /\ last' = Event("createNewSpreadsheetDocument", a, ErrRequestFailed,
                               <<createRequest(a, properties)>>,
                               Some([authConfig |-> authConfig]))
        /\ UNCHANGED <<auth, docVars, pending, remoteVars, rowVars>>

createSucceeds(a, properties, data) ==
    LET c == eachSheet([rawProperties |-> Some(data.properties),
                        rawSheets |-> constructed.rawSheets,
                        nextOid |-> nextOid], data.sheets)
    IN  /\ pending = <<>>
        /\ createGuard(a) = NoError
        /\ getRequestAuthConfig(a).threw = NoError
        /\ Fits(c)
        /\ auth' = a
        /\ spreadsheetUrl' = data.spreadsheetUrl
        /\ SetCache(c)
        /\ loadedBy' = {"create"}
        /\ last' = Event("createNewSpreadsheetDocument", a, "returned",
                         <<createRequest(a, properties)>>, Some(data))
        /\ UNCHANGED <<pending, remoteVars, rowVars>>

createNewSpreadsheetDocument(a, properties) ==
    \/ createFails(a, properties)
    \/ \E data \in CreateResponses : createSucceeds(a, properties, data)

-----------------------------------------------------------------------------
(* The document: specification Spec *)

\* credentials of the declared type GoogleSpreadsheetAuth a document is built with
ApiKeyAuth ==
    [fields |-> {"apiKey"}, apiKey |-> "key", access_token |-> UndefStr,
     fetched |-> UndefStr, token |-> UndefStr]
TokenAuth ==
    [fields |-> {"token"}, apiKey |-> UndefStr, access_token |-> UndefStr,
     fetched |-> UndefStr, token |-> "tok"]
EmptyTokenAuth == [TokenAuth EXCEPT !.token = ""]
JWTAuth ==
    [fields |-> {"authorize", "getAccessToken"}, apiKey |-> UndefStr,
     access_token |-> "tok", fetched |-> "tok", token |-> UndefStr]
DocCredentials == {ApiKeyAuth, TokenAuth, EmptyTokenAuth, JWTAuth}

NoEvent == Event("constructor", Null, "returned", <<>>, Null)

\* the values of a row
RowValues == {"Al", "30"}
NoRow == [i \in 0..1 |-> "Al"]

\* new GoogleSpreadsheet(spreadsheetId, auth)
InitDoc(a) ==
    /\ auth = a
    /\ rawProperties = constructed.rawProperties
    /\ rawSheets = constructed.rawSheets
    /\ spreadsheetUrl = constructed.spreadsheetUrl
    /\ nextOid = 1
    /\ loadedBy = {}
    /\ pending = <<>>
    /\ last = NoEvent
    /\ remotePerms = {}
    /\ remoteRow = Some(NoRow)
    /\ rowDeleted = FALSE
    /\ rowData = NoRow

Init == \E a \in {ApiKeyAuth, TokenAuth, EmptyTokenAuth} : InitDoc(a)

SheetArgs ==
    [title : {"A"}, headerValues : {Null, Some(<<"name", "age">>)}, headerRowIndex : {1}]

Respond ==
    \E i \in 1..Len(pending) :
        \/ \E data \in LoadInfoResponses(pending[i]) : loadInfoResumed(i, data)
        \/ \E data \in BatchUpdateResponses(pending[i]) :
              \/ simpleUpdateResumed(i, data)
              \/ deleteSheetResumed(i, data)
              \/ addSheetResumed(i, data)
        \/ addSheetHeaderResumed(i)
        \/ \E sheets \in SheetLists(TRUE) : loadCellsResumed(i, [sheets |-> sheets])
        \/ downloadAsResumed(i)
        \/ awaitRejected(i)

\* The calls of Spec, with the arguments Spec gives them; SpecExport and
\* SpecCells cover every argument of _downloadAs and loadCells.
Calls ==
    \/ \E includeCells \in BOOLEAN : loadInfo(includeCells)
    \/ updateProperties([title |-> "T1"])
    \/ \E p \in SheetArgs : addSheet(p)
    \/ \E id \in SheetIds : deleteSheet(id)
    \/ addNamedRange("range", "gridRange", UndefStr)
    \/ deleteNamedRange("rangeId")
    \/ \E rr \in {UndefStr, "*"} : _makeBatchUpdateRequest(<<"updateCells">>, rr)
    \/ loadCells([shape |-> "single", items |-> <<A1Filter>>])
    \/ _downloadAs("xlsx", Undefined)

\* In Spec the caller awaits each asynchronous call before it makes the next,
\* so the requests complete one at a time; resetLocalCache is synchronous and
\* may run while a request is in flight.
Next ==
    \/ pending = <<>> /\ Calls
    \/ resetLocalCache
    \/ Respond

Spec == Init /\ [][Next]_vars

-----------------------------------------------------------------------------
(* Claims about the document cache, checked under Spec *)

AllAccessorsRaiseNotLoaded ==
    /\ \A p \in PropertyNames : _getProp(p).threw = ErrNotLoaded
    /\ sheetCount.threw = ErrNotLoaded
    /\ sheetsById.threw = ErrNotLoaded
    /\ sheetsByIndex.threw = ErrNotLoaded
    /\ sheetsByTitle.threw = ErrNotLoaded

\* C1 as stated: while no loadInfo has succeeded, every property getter and
\* every worksheet accessor raises the not-loaded error.
C1_NotLoadedUntilLoadInfo ==
    "loadInfo" \notin loadedBy => AllAccessorsRaiseNotLoaded

\* C1 amended: while neither a loadInfo nor a mutation request has succeeded on
\* a document built by the constructor, every property getter and every
\* worksheet accessor raises the not-loaded error, whatever else was called
\* (loadCells that cached worksheets, exports, failed requests, resets).
C1_NotLoadedUntilLoadOrEcho ==
    loadedBy = {} => AllAccessorsRaiseNotLoaded

\* C1 witness: a loadCells has cached a worksheet and the document is still
\* unloaded.
C1_Witness ==
    /\ loadedBy = {}
    /\ DOMAIN rawSheets # {}
    /\ last.op = "loadCells" /\ last.outcome = "returned"

IsSingleUpdateRequest(req) ==
    /\ req.api = "sheets" /\ req.method = "POST" /\ req.url = ":batchUpdate"
    /\ Len(req.data.requests) = 1
    /\ req.data.includeSpreadsheetInResponse

\* C2: every call of _makeSingleUpdateRequest issues one batchUpdate request
\* that carries exactly one operation and asks for the spreadsheet to be
\* echoed; when a successful call returns, the cached document properties are
\* the echoed ones and every worksheet of the echo is in the map under its
\* sheetId with the echoed properties (deleteSheet then evicts its own sheet).
C2_EchoApplied ==
    /\ (last.op \in SingleUpdateOps /\ last.phase = "call" /\ last.outcome = "pending")
          => (Len(last.sent) = 1 /\ IsSingleUpdateRequest(last.sent[1]))
    /\ (last.op \in SingleUpdateOps /\ last.resp # Null)
          => LET echo == last.resp[1].updatedSpreadsheet
             IN  /\ rawProperties = Some(echo.properties)
                 /\ \A k \in 1..Len(echo.sheets) :
                       LET p == echo.sheets[k].properties
                       IN  (last.op = "deleteSheet" /\ p.sheetId = last.arg)
                           \/ (/\ p.sheetId \in DOMAIN rawSheets
                               /\ rawSheets[p.sheetId].rawProperties = p)

\* C2 witness: on a document loaded earlier, a mutation has returned whose echo
\* lists two worksheets.
C2_Witness ==
    /\ last.op = "updateProperties" /\ last.outcome = "returned"
    /\ Len(last.resp[1].updatedSpreadsheet.sheets) = 2
    /\ nextOid = 3
    /\ "loadInfo" \in loadedBy

\* C3: applying an echoed snapshot (document properties and list of sheets) a
\* second time leaves the cache as the first application left it, from every
\* cache state the document reaches.
C3_UpsertIdempotent ==
    \A properties \in SpreadsheetProperties, withData \in BOOLEAN :
        \A sheets \in SheetLists(withData) :
            LET echo == [properties |-> properties, sheets |-> sheets]
                once == applyEcho(Cache, echo)
            IN  applyEcho(once, echo) = once

\* C3 witness: an echo with worksheets has been applied to a cache that held
\* worksheets, and applying it again changes nothing.
C3_Witness ==
    /\ last.op = "addNamedRange" /\ last.outcome = "returned"
    /\ Len(last.resp[1].updatedSpreadsheet.sheets) > 0
    /\ Cardinality(DOMAIN rawSheets) = 2
    /\ applyEcho(Cache, last.resp[1].updatedSpreadsheet) = Cache

\* C10 as stated: resetLocalCache issues no request and leaves the document in
\* the cached state of a freshly constructed one.
C10_ResetClearsAllCachedState ==
    last.op = "resetLocalCache" =>
        /\ last.sent = <<>>
        /\ [rawProperties |-> rawProperties, rawSheets |-> rawSheets,
            spreadsheetUrl |-> spreadsheetUrl] = constructed

-----------------------------------------------------------------------------
\* C11: when deleteSheet(id) returns, id is not a key of the worksheet map,
\* whatever the echoed spreadsheet lists; when its request fails, the step
\* that ends the call raises the error and leaves the worksheet map as it was.
C11_DeleteSheetEvicts ==
    /\ []((last.op = "deleteSheet" /\ last.phase = "resume" /\ last.outcome = "returned")
            => last.arg \notin DOMAIN rawSheets)
    /\ [][(last'.op = "deleteSheet" /\ last'.phase = "resume"
             /\ last'.outcome # "returned") =>
            /\ last'.outcome \in {ErrRequestFailed, ErrInvalidAuth}
            /\ rawSheets' = rawSheets
            /\ Len(pending') < Len(pending)]_vars

\* C11 witness: deleteSheet has returned after an echo that still lists the
\* deleted sheet (so the echo had stored it), and another worksheet remains.
C11_Witness ==
    /\ last.op = "deleteSheet" /\ last.phase = "resume" /\ last.outcome = "returned"
    /\ \E k \in 1..Len(last.resp[1].updatedSpreadsheet.sheets) :
          last.resp[1].updatedSpreadsheet.sheets[k].properties.sheetId = last.arg
    /\ rawSheets # EmptySheets

-----------------------------------------------------------------------------
\* C20: a step that is neither resetLocalCache nor the return of deleteSheet
\* keeps every worksheet object of the map under its sheetId: the snapshots of
\* loads, cell loads and echoes are merged into it (the return of deleteSheet
\* removes the one it deleted and keeps the others); and every object of the
\* map was constructed once, for one sheetId.
C20_WorksheetObjectsKept ==
    /\ [](\A id \in DOMAIN rawSheets :
            /\ rawSheets[id].oid < nextOid
            /\ \A other \in DOMAIN rawSheets :
                  rawSheets[other].oid = rawSheets[id].oid => other = id)
    /\ [][last'.op # "resetLocalCache" =>
            \A id \in DOMAIN rawSheets :
                \/ /\ last'.op = "deleteSheet" /\ last'.phase = "resume"
                   /\ last'.outcome = "returned" /\ last'.arg = id
                \/ /\ id \in DOMAIN rawSheets'
                   /\ rawSheets'[id].oid = rawSheets[id].oid]_vars

\* C20 witness: a cell load has listed one worksheet, the first object the
\* document constructed, a second one having been constructed since: its
\* object is still the one in the map and holds the listed properties and cells.
C20_Witness ==
    /\ last.op = "loadCells" /\ last.phase = "resume" /\ last.outcome = "returned"
    /\ Len(last.resp[1].sheets) = 1
    /\ nextOid = 3
    /\ LET listed == last.resp[1].sheets[1]
           id == listed.properties.sheetId
       IN  /\ id \in DOMAIN rawSheets
           /\ rawSheets[id].oid = 1
           /\ rawSheets[id].rawProperties = listed.properties
           /\ rawSheets[id].cells = listed.data

-----------------------------------------------------------------------------
\* the step is a step of addSheet
IsAddSheet(event, phase, outcome) ==
    event.op = "addSheet" /\ event.phase = phase /\ event.outcome = outcome

\* C21: addSheet first issues its add-sheet mutation, alone, and the request
\* has neither headerValues nor headerRowIndex among its properties; the
\* step that receives the echo applies it to the cache and then, when header
\* values were given, issues the one header-row write for the worksheet the
\* reply names, which is then in the map, and goes on waiting; without header
\* values that step returns and issues nothing. With header values the call
\* returns in the step that receives the response to the header write. When
\* the add-sheet request fails no header write is issued.
C21_AddSheetThenHeaderRow ==
    /\ [](IsAddSheet(last, "call", "pending") =>
            /\ Len(last.sent) = 1
            /\ last.sent[1].method = "POST" /\ last.sent[1].url = ":batchUpdate"
            /\ Len(last.sent[1].data.requests) = 1
            /\ last.sent[1].data.requests[1].type = "addSheet"
            /\ DOMAIN last.sent[1].data.requests[1].params.properties
                  = (DOMAIN last.arg) \ {"headerValues", "headerRowIndex"})
    /\ [][last'.op = "addSheet" /\ last'.phase = "resume" =>
            \E i \in 1..Len(pending) :
                /\ pending[i].op = "addSheet"
                /\ pending[i].arg = last'.arg
                /\ IF pending[i].stage = "batchUpdate"
                   THEN IF last'.resp = Null
                        THEN /\ last'.outcome \notin {"returned", "pending"}
                             /\ last'.sent = <<>>
                             /\ pending' = RemoveAt(pending, i)
                        ELSE LET data == last'.resp[1]
                                 newSheetId == data.replies[1].properties.sheetId
                             IN  /\ Cache' = applyEcho(Cache, data.updatedSpreadsheet)
                                 /\ newSheetId \in DOMAIN rawSheets'
                                 /\ IF last'.arg.headerValues = Null
                                    THEN /\ last'.outcome = "returned"
                                         /\ last'.sent = <<>>
                                         /\ pending' = RemoveAt(pending, i)
                                    ELSE /\ last'.outcome = "pending"
                                         /\ last'.sent =
                                              <<setHeaderRowRequest(newSheetId,
                                                    last'.arg.headerValues[1],
                                                    last'.arg.headerRowIndex)>>
                                         /\ Len(pending') = Len(pending)
                                         /\ pending'[i].stage = "setHeaderRow"
                   ELSE /\ pending[i].stage = "setHeaderRow"
                        /\ last'.arg.headerValues # Null
                        /\ last'.sent = <<>>
                        /\ last'.outcome # "pending"
                        /\ pending' = RemoveAt(pending, i)]_vars

\* C21 witness: an addSheet with header values has returned: the response to
\* its header write has arrived, and the worksheet is in the map.
C21_Witness ==
    /\ IsAddSheet(last, "resume", "returned")
    /\ last.arg.headerValues # Null
    /\ last.resp = Null
    /\ pending = <<>>
    /\ rawSheets # EmptySheets
    /\ "echo" \in loadedBy

-----------------------------------------------------------------------------
\* the sheetIds that the snapshot of the response lists
listedSheetIds(sheets) == { sheets[k].properties.sheetId : k \in 1..Len(sheets) }

\* C23: a sheetId of the worksheet map is missing from the map after a step
\* only when the step is resetLocalCache or the return of a deleteSheet of
\* that sheetId; the responses of loadInfo and loadCells and the echoes of
\* mutations keep every entry, also the ones their snapshot does not list.
C23_EntriesLeaveByDeleteOrReset ==
    [][\A id \in (DOMAIN rawSheets) \ (DOMAIN rawSheets') :
          \/ last'.op = "resetLocalCache"
          \/ /\ last'.op = "deleteSheet" /\ last'.phase = "resume"
             /\ last'.outcome = "returned"
             /\ last'.arg = id]_vars

\* C23 witness: loadInfo has returned with a snapshot that does not list a
\* worksheet of the map: the worksheet, cached earlier, is still there.
C23_Witness ==
    /\ last.op = "loadInfo" /\ last.phase = "resume" /\ last.outcome = "returned"
    /\ (DOMAIN rawSheets) \ listedSheetIds(last.resp[1].sheets) # {}

-----------------------------------------------------------------------------
\* C24: a response that arrives right after resetLocalCache belongs to a
\* request that was in flight when the reset ran (the reset leaves the calls
\* in flight as they are): the step that receives it leaves the document
\* unloaded, with no cached properties and an empty worksheet map.
C24_InFlightResponseIgnoredAfterReset ==
    [][(last.op = "resetLocalCache" /\ last'.phase = "resume")
          => (rawProperties' = Null /\ rawSheets' = EmptySheets)]_vars

-----------------------------------------------------------------------------
(* Exports: specification SpecExport calls _downloadAs with every argument *)

\* the responses to loadInfo in the specifications that are not about the cache
FewLoadInfoResponses(call) ==
    { d \in LoadInfoResponses(call) :
        /\ d.properties.title = "T1"
        /\ \A k \in 1..Len(d.sheets) :
              d.sheets[k].properties.title = "A" /\ d.sheets[k].properties.sheetId = 0 }

\* the echoes of a mutation in the specifications that are not about the cache
FewBatchUpdateResponses(call) ==
    { d \in BatchUpdateResponses(call) :
        /\ d.updatedSpreadsheet.properties.title = "T1"
        /\ \A k \in 1..Len(d.updatedSpreadsheet.sheets) :
              /\ d.updatedSpreadsheet.sheets[k].properties.title = "A"
              /\ d.updatedSpreadsheet.sheets[k].properties.sheetId = 0 }

\* a document that createNewSpreadsheetDocument has returned
InitCreated(a, data) ==
    LET c == eachSheet([rawProperties |-> Some(data.properties),
                        rawSheets |-> constructed.rawSheets,
                        nextOid |-> 1], data.sheets)
    IN  /\ auth = a
        /\ rawProperties = c.rawProperties
        /\ rawSheets = c.rawSheets
        /\ spreadsheetUrl = data.spreadsheetUrl
        /\ nextOid = c.nextOid
        /\ loadedBy = {"create"}
        /\ pending = <<>>
        /\ last = NoEvent
        /\ remotePerms = {}
        /\ remoteRow = Some(NoRow)
        /\ rowDeleted = FALSE
        /\ rowData = NoRow

InitExport ==
    \/ \E a \in DocCredentials : InitDoc(a)
    \/ \E data \in { d \in CreateResponses : d.properties.title = "T1" /\ d.sheets = <<>> } :
          InitCreated(TokenAuth, data)

NextExport ==
    \/ pending = <<>> /\ loadInfo(FALSE)
    \/ pending = <<>> /\ updateProperties([title |-> "T1"])
    \/ /\ pending = <<>>
       /\ \E fileType \in FileTypes, worksheetId \in WorksheetIdArgs :
             _downloadAs(fileType, worksheetId)
    \/ resetLocalCache
    \/ \E i \in 1..Len(pending) :
          \/ \E data \in FewLoadInfoResponses(pending[i]) : loadInfoResumed(i, data)
          \/ \E data \in FewBatchUpdateResponses(pending[i]) : simpleUpdateResumed(i, data)
          \/ downloadAsResumed(i)
          \/ awaitRejected(i)

SpecExport == InitExport /\ [][NextExport]_vars

WholeDocumentFormats == {"xlsx", "ods", "zip", "html"}
SingleWorksheetFormats == {"csv", "tsv", "pdf"}

\* C5 as stated: _downloadAs fails with an unsupported-export-target error and
\* issues no request when the format is none of the seven, when the format is
\* csv, tsv or pdf and no worksheet id is given, and when the format is xlsx,
\* ods, zip or html and a worksheet id (any id, 0 included) is given.
C5_BadExportTargetRejected ==
    (last.op = "_downloadAs" /\ last.phase = "call") =>
        LET fileType == last.arg[1]
            worksheetId == last.arg[2]
        IN  (\/ fileType \notin WholeDocumentFormats \cup SingleWorksheetFormats
             \/ fileType \in SingleWorksheetFormats /\ worksheetId = Undefined
             \/ fileType \in WholeDocumentFormats /\ worksheetId # Undefined)
            => (last.outcome \in ExportErrors /\ last.sent = <<>>)

-----------------------------------------------------------------------------
\* C14: an export with a valid format and worksheet id, on a document where
\* neither a loadInfo nor the seeding of createNewSpreadsheetDocument has
\* stored the url (a document filled by a mutation echo alone is one), fails
\* with the not-loaded error and issues no request; on any other document it
\* issues exactly one GET, to the edit url with /edit replaced by /export.
C14_ExportNeedsUrl ==
    (/\ last.op = "_downloadAs" /\ last.phase = "call"
     /\ \/ last.arg[1] \in WholeDocumentFormats /\ last.arg[2] = Undefined
        \/ last.arg[1] \in SingleWorksheetFormats /\ last.arg[2] \in SheetIds) =>
        IF loadedBy \cap {"loadInfo", "create"} = {}
        THEN last.outcome = ErrNotFullyLoaded /\ last.sent = <<>>
        ELSE /\ last.outcome = "pending"
             /\ Len(last.sent) = 1
             /\ last.sent[1].method = "GET"
             /\ last.sent[1].url = SubSeq(EditUrl, 1, Len(EditUrl) - 1) \o <<"/export">>

\* C14 witness: the properties are cached from a mutation echo alone, and an
\* export of a worksheet as csv has failed with the not-loaded error.
C14_Witness ==
    /\ loadedBy = {"echo"}
    /\ rawProperties # Null
    /\ last.op = "_downloadAs" /\ last.arg[1] = "csv" /\ last.arg[2] \in SheetIds
    /\ last.outcome = ErrNotFullyLoaded

-----------------------------------------------------------------------------
(* loadCells: specification SpecCells calls it with every filter argument *)

InitCells == \E a \in DocCredentials : InitDoc(a)

NextCells ==
    \/ pending = <<>> /\ \E filters \in FilterArgs : loadCells(filters)
    \/ \E i \in 1..Len(pending) :
          \/ \E sheets \in SheetLists(TRUE) : loadCellsResumed(i, [sheets |-> sheets])
          \/ awaitRejected(i)

SpecCells == InitCells /\ [][NextCells]_vars

HasGridRange(items) == \E k \in 1..Len(items) : items[k].kind = "object"

\* C8: a loadCells call whose filters are A1 strings and grid-range objects:
\* under an api key, with a grid range anywhere among the filters, it throws
\* the only-A1-ranges error, issues no request and leaves the worksheet map as
\* it was; under an api key with A1 strings only it issues one GET of the
\* document with the strings as ranges; under any other credential it issues
\* one POST to :getByDataFilter with every string wrapped as a1Range and every
\* object as gridRange.
C8_LoadCellsStrategy ==
    [][(last'.op = "loadCells" /\ last'.phase = "call" /\ last'.arg.shape # "undefined") =>
        LET items == last'.arg.items
            sent == last'.sent
        IN  IF "apiKey" \in auth.fields
            THEN IF HasGridRange(items)
                 THEN /\ last'.outcome = ErrOnlyA1
                      /\ sent = <<>>
                      /\ pending' = pending
                      /\ rawSheets' = rawSheets
                 ELSE /\ last'.outcome = "pending"
                      /\ Len(sent) = 1
                      /\ sent[1].method = "GET" /\ sent[1].url = "/"
                      /\ sent[1].params.includeGridData
                      /\ sent[1].params.ranges =
                            [k \in 1..Len(items) |-> [wrap |-> "none", v |-> items[k].v]]
            ELSE /\ last'.outcome = "pending"
                 /\ Len(sent) = 1
                 /\ sent[1].method = "POST" /\ sent[1].url = ":getByDataFilter"
                 /\ sent[1].data.includeGridData
                 /\ sent[1].data.dataFilters =
                       [k \in 1..Len(items) |->
                           [wrap |-> IF items[k].kind = "string" THEN "a1Range"
                                     ELSE "gridRange",
                            v |-> items[k].v]]
    ]_vars

\* C8 witness: under an api key, with worksheets cached, loadCells was called
\* with an A1 string followed by a grid range and threw.
C8_Witness ==
    /\ "apiKey" \in auth.fields
    /\ last.op = "loadCells" /\ last.phase = "call"
    /\ last.arg.shape = "array"
    /\ last.arg.items = <<A1Filter, GridFilter>>
    /\ last.outcome = ErrOnlyA1
    /\ DOMAIN rawSheets # {}

-----------------------------------------------------------------------------
\* C15 as stated: loadCells called with no filter argument does not fail: it
\* issues one fetch request, a GET under an api key and a POST otherwise.
C15_NoFilterFetchesAll ==
    (last.op = "loadCells" /\ last.phase = "call" /\ last.arg.shape = "undefined") =>
        /\ last.outcome = "pending"
        /\ Len(last.sent) = 1
        /\ last.sent[1].method = IF "apiKey" \in auth.fields THEN "GET" ELSE "POST"

-----------------------------------------------------------------------------
(* Credentials: specification SpecAuth resolves every credential object *)

resolveAuth ==
    /\ last' = Event("getRequestAuthConfig", auth, getRequestAuthConfig(auth).threw, <<>>,
                     Some(getRequestAuthConfig(auth)))
    /\ UNCHANGED <<auth, docVars, pending, remoteVars, rowVars>>

authMode ==
    /\ last' = Event("authMode", auth, getAuthMode(auth), <<>>, Null)
    /\ UNCHANGED <<auth, docVars, pending, remoteVars, rowVars>>

InitAuth == \E a \in Credentials : InitDoc(a)

NextAuth ==
    \/ resolveAuth
    \/ authMode
    \/ createNewSpreadsheetDocument(auth, [title |-> "T1"])

SpecAuth == InitAuth /\ [][NextAuth]_vars

\* C6: createNewSpreadsheetDocument with a credential that has an apiKey field
\* throws the api-key error whatever else the credential holds, before the
\* credential is resolved and before any request, and no document is built.
C6_ApiKeyNeverCreates ==
    (last.op = "createNewSpreadsheetDocument" /\ "apiKey" \in last.arg.fields) =>
        /\ last.outcome = ErrApiKeyCreate
        /\ last.sent = <<>>
        /\ last.resp = Null
        /\ "create" \notin loadedBy

\* C6 witness: the call was made with a credential that has an apiKey and the
\* fields of a JWT client with a token, and threw.
C6_Witness ==
    /\ last.op = "createNewSpreadsheetDocument"
    /\ last.arg.fields = {"apiKey", "authorize", "getAccessToken"}
    /\ last.arg.access_token = "tok"
    /\ last.outcome = ErrApiKeyCreate

\* the path the resolver takes when there is no apiKey yields no token
YieldsNoToken(a) ==
    IF "authorize" \in a.fields THEN a.access_token \in {UndefStr, ""}
    ELSE IF "getAccessToken" \in a.fields THEN a.fetched \in {UndefStr, ""}
    ELSE IF "token" \in a.fields THEN a.token \in {UndefStr, ""}
    ELSE TRUE

\* C7: for every credential object, getRequestAuthConfig either throws the
\* invalid-auth error or returns exactly one directive: a key query parameter
\* and no header when apiKey is present, otherwise an Authorization bearer
\* header and no query parameter. It throws exactly when none of the four
\* fields is present or the path taken yields no token.
C7_ExactlyOneDirective ==
    last.op = "getRequestAuthConfig" =>
        LET a == last.arg
            r == last.resp[1]
        IN  /\ r.threw \in {NoError, ErrInvalidAuth}
            /\ r.threw = NoError => ((r.params = Null) # (r.headers = Null))
            /\ r.threw # NoError => (r.params = Null /\ r.headers = Null)
            /\ "apiKey" \in a.fields =>
                  (r.threw = NoError /\ r.params = Some([key |-> a.apiKey]))
            /\ ("apiKey" \notin a.fields /\ r.threw = NoError) =>
                  \E t \in TokenValues \ {UndefStr, ""} :
                      r.headers = Some([Authorization |-> <<"Bearer", t>>])
            /\ (r.threw = ErrInvalidAuth) <=>
                  (a.fields = {} \/ ("apiKey" \notin a.fields /\ YieldsNoToken(a)))

\* C7 witness: a credential with authorize and token fields whose authorize
\* path yields an empty token was resolved, and the resolver threw although
\* the token field holds a token.
C7_Witness ==
    /\ last.op = "getRequestAuthConfig"
    /\ last.arg.fields = {"authorize", "token"}
    /\ last.arg.access_token = ""
    /\ last.arg.token = "tok"
    /\ last.outcome = ErrInvalidAuth

-----------------------------------------------------------------------------
(* Permissions: specification SpecPerm *)

RoleFalse == "<false>"
PublicPermissionRoles == {"writer", "commenter", "reader"}

\* the permissions a file can have, in the order the remote lists them
PermissionEntries ==
    <<[id |-> "user1", type |-> "user"],
      [id |-> "anyoneWithLink", type |-> "anyone"],
      [id |-> "domain1", type |-> "domain"]>>

PermissionIds == { PermissionEntries[k].id : k \in 1..Len(PermissionEntries) }

\* listReq.data.permissions, given the ids the file has
permissionsList(ids) ==
    LET Present(e) == e.id \in ids
    IN  SelectSeq(PermissionEntries, Present)

listPermissionsRequest ==
    driveApi("GET", <<"/permissions">>,
             [fields |-> "permissions(id,type,emailAddress,domain,role,displayName,photoLink,deleted)"],
             Null)

listPermissions ==
    /\ Suspend("listPermissions", "list", Null, listPermissionsRequest, FALSE)
    /\ UNCHANGED <<auth, docVars, remoteVars, rowVars>>

listPermissionsResumed(i) ==
    LET call == pending[i]
    IN  /\ call.op = "listPermissions"
        /\ call.sentOut
        /\ pending' = RemoveAt(pending, i)
        /\ last' = Resumed("listPermissions", Null, "returned", <<>>,
                           Some([permissions |-> permissionsList(remotePerms)]))
        /\ UNCHANGED <<auth, docVars, remoteVars, rowVars>>

\* a slip: the predicate assigns instead of comparing, so the first entry is found
findPublicPermission_first(permissions) ==
    IF permissions = <<>> THEN Null ELSE Some(permissions[1])

\* _.find(permissions, (p) => p.type === 'anyone'): the first such entry
findPublicPermission(permissions) ==
    LET found == { k \in 1..Len(permissions) : permissions[k].type = "anyone" }
    IN  IF found = {} THEN Null
        ELSE Some(permissions[CHOOSE k \in found : \A j \in found : k <= j])

setPublicAccessLevel(role) ==
    /\ Suspend("setPublicAccessLevel", "list", [role |-> role, stage |-> "list", id |-> ""],
               listPermissionsRequest, FALSE)
    /\ UNCHANGED <<auth, docVars, remoteVars, rowVars>>

\* the permissions are listed: the method returns, deletes or creates
setPublicAccessLevelListed(i) ==
    LET call == pending[i]
        role == call.arg.role
        permissions == permissionsList(remotePerms)
        existingPublicPermission == findPublicPermission(permissions)
        resp == Some([permissions |-> permissions])
        deleteReq == driveApi("DELETE", <<"/permissions", existingPublicPermission[1].id>>,
                              Null, Null)
        createReq == driveApi("POST", <<"/permissions">>, Null,
                              [role |-> role, type |-> "anyone"])
    IN  /\ call.op = "setPublicAccessLevel" /\ call.stage = "list"
        /\ call.sentOut
        /\ IF role = RoleFalse
           THEN IF existingPublicPermission = Null
                THEN /\ pending' = RemoveAt(pending, i)
                     /\ last' = Resumed(call.op, call.arg, "returned", <<>>, resp)
                ELSE /\ pending' = [pending EXCEPT ![i] =
                            NextStage(call, "delete",
                                      [role |-> role, stage |-> "delete",
                                       id |-> existingPublicPermission[1].id],
                                      deleteReq)]
                     /\ last' = Resumed(call.op, call.arg, "pending", <<deleteReq>>, resp)
           ELSE /\ pending' = [pending EXCEPT ![i] =
                       NextStage(call, "create",
                                 [role |-> role, stage |-> "create", id |-> "anyoneWithLink"],
                                 createReq)]
                /\ last' = Resumed(call.op, call.arg, "pending", <<createReq>>, resp)
        /\ UNCHANGED <<auth, docVars, remoteVars, rowVars>>

\* the remote has deleted or created the permission and the method returns
setPublicAccessLevelDone(i) ==
    LET call == pending[i]
    IN  /\ call.op = "setPublicAccessLevel" /\ call.stage \in {"delete", "create"}
        /\ call.sentOut
        /\ IF call.stage = "delete"
           THEN /\ call.arg.id \in remotePerms
                /\ remotePerms' = remotePerms \ {call.arg.id}
           ELSE remotePerms' = remotePerms \cup {call.arg.id}
        /\ pending' = RemoveAt(pending, i)
        /\ last' = Resumed(call.op, call.arg, "returned", <<>>, Null)
        /\ UNCHANGED <<auth, docVars, remoteRow, rowVars>>

InitPerm ==
    \E a \in DocCredentials, ids \in SUBSET PermissionIds :
        /\ auth = a
        /\ rawProperties = constructed.rawProperties
        /\ rawSheets = constructed.rawSheets
        /\ spreadsheetUrl = constructed.spreadsheetUrl
        /\ nextOid = 1
        /\ loadedBy = {}
        /\ pending = <<>>
        /\ last = NoEvent
        /\ remotePerms = ids
        /\ remoteRow = Some(NoRow)
        /\ rowDeleted = FALSE
        /\ rowData = NoRow

NextPerm ==
    \/ pending = <<>> /\ listPermissions
    \/ pending = <<>> /\ \E role \in PublicPermissionRoles \cup {RoleFalse} :
                            setPublicAccessLevel(role)
    \/ \E i \in 1..Len(pending) :
          \/ listPermissionsResumed(i)
          \/ setPublicAccessLevelListed(i)
          \/ setPublicAccessLevelDone(i)
          \/ awaitRejected(i)

SpecPerm == InitPerm /\ [][NextPerm]_vars

\* C9: setPublicAccessLevel first lists the permissions; with role false, when
\* the list has no entry of type anyone it returns without error and issues
\* no further request, and when it has one it issues exactly one DELETE, for
\* the id of that entry; no DELETE is ever issued for another permission and
\* no other permission ever leaves the file.
C9_OnlyPublicPermissionDeleted ==
    /\ [](/\ (last.op = "setPublicAccessLevel" /\ last.phase = "call") =>
                /\ last.outcome = "pending"
                /\ Len(last.sent) = 1
                /\ last.sent[1].method = "GET" /\ last.sent[1].url = <<"/permissions">>
          /\ (/\ last.op = "setPublicAccessLevel" /\ last.phase = "resume"
              /\ last.arg.stage = "list" /\ last.arg.role = RoleFalse
              /\ last.resp # Null) =>
                LET permissions == last.resp[1].permissions
                    anyone == { k \in 1..Len(permissions) : permissions[k].type = "anyone" }
                IN  IF anyone = {}
                    THEN last.outcome = "returned" /\ last.sent = <<>>
                    ELSE /\ last.outcome = "pending"
                         /\ Len(last.sent) = 1
                         /\ last.sent[1].method = "DELETE"
                         /\ \E k \in anyone :
                               last.sent[1].url = <<"/permissions", permissions[k].id>>
          /\ \A k \in 1..Len(last.sent) :
                last.sent[k].method = "DELETE" =>
                    last.sent[k].url = <<"/permissions", "anyoneWithLink">>)
    /\ [][\A id \in remotePerms : id # "anyoneWithLink" => id \in remotePerms']_vars

\* C9 witness: with role false, the list held a user, the anyone entry and a
\* domain, and the DELETE for the anyone entry has been issued.
C9_Witness ==
    /\ last.op = "setPublicAccessLevel" /\ last.phase = "resume"
    /\ last.arg.role = RoleFalse /\ last.arg.stage = "list"
    /\ last.resp # Null
    /\ Len(last.resp[1].permissions) = 3
    /\ Len(last.sent) = 1
    /\ last.sent[1].method = "DELETE"

-----------------------------------------------------------------------------
(* Row: specification SpecRow *)

ErrRowDeleted == "This row has been deleted - call getRows again before making updates."

\* the worksheet the row is bound to, its header row and the row number
RowSheet == [sheetId |-> 0, title |-> "A"]
headerValues == <<"name", "age">>
rowNumber == 2

\* GoogleSpreadsheetWorksheet.a1SheetName and utils.columnToLetter
a1SheetName(properties) == properties.title
columnToLetter(column) == <<"A", "B", "C">>[column]

\* the parts that a1Range joins
a1Range ==
    <<a1SheetName(RowSheet), "!", <<"A", rowNumber>>, ":",
      <<columnToLetter(Len(headerValues)), rowNumber>>>>

\* a guard that never throws
rowDeletedGuard_never(deleted) == NoError

\* if (this._deleted) throw, the first statement of save and of delete
rowDeletedGuard(deleted) == IF deleted THEN ErrRowDeleted ELSE NoError

\* a synchronous method that has returned a value
Returned(op, arg, value) ==
    [op |-> op, phase |-> "call", arg |-> arg, outcome |-> "returned", sent |-> <<>>,
     resp |-> Null, value |-> value]

\* the keys the callers use: the two of the header row and two it does not have
RowKeys == {"name", "age", "nope", "other"}

\* headerValues.indexOf(key): the zero-based position, -1 when absent
indexOf(values, key) ==
    IF \E k \in 1..Len(values) : values[k] = key
    THEN (CHOOSE k \in 1..Len(values) :
              values[k] = key /\ \A j \in 1..(k - 1) : values[j] # key) - 1
    ELSE 0 - 1

\* data[index], undefined when the array has no such property
at(data, index) == IF index \in DOMAIN data THEN data[index] ELSE UndefStr

\* GoogleSpreadsheetRow.get
get(data, key) == at(data, indexOf(headerValues, key))

\* data[index] = val; an index of -1 adds the property "-1" to the array
put(data, index, val) ==
    [i \in (DOMAIN data) \cup {index} |-> IF i = index THEN val ELSE data[i]]

\* GoogleSpreadsheetRow.set
set(data, key, val) == put(data, indexOf(headerValues, key), val)

\* GoogleSpreadsheetRow.assign: obj as the sequence of its <<key, value>> pairs
RECURSIVE assign(_, _)
assign(data, obj) ==
    IF obj = <<>> THEN data
    ELSE assign(set(data, Head(obj)[1], Head(obj)[2]), Tail(obj))

\* GoogleSpreadsheetRow.toObject
toObject(data) ==
    [key \in { headerValues[k] : k \in 1..Len(headerValues) } |->
        at(data, indexOf(headerValues, key))]

\* the elements of the array: what JSON carries of it
elements(data) == [i \in { j \in DOMAIN data : j >= 0 } |-> data[i]]

\* the objects given to assign
AssignArgs ==
    LET pairs == {"age", "nope"} \X RowValues
    IN  {<<>>} \cup { <<p>> : p \in pairs }
               \cup { pq \in pairs \X pairs : pq[1][1] # pq[2][1] }

rowGet(key) ==
    /\ last' = Returned("row.get", key, get(rowData, key))
    /\ UNCHANGED <<auth, docVars, pending, remoteVars, rowVars>>

\* a set that also pushes the row to the remote
rowSet_autosave(key, val) ==
    /\ rowData' = set(rowData, key, val)
    /\ Suspend("row.set", "put", key,
               sheetsApi("PUT", <<"/values/", [encodeURIComponent |-> a1Range]>>, Null,
                         [values |-> <<elements(set(rowData, key, val))>>]), FALSE)
    /\ UNCHANGED <<auth, docVars, remoteVars, rowDeleted>>

rowSet(key, val) ==
    /\ rowData' = set(rowData, key, val)
    /\ last' = Returned("row.set", <<key, val>>, UndefStr)
    /\ UNCHANGED <<auth, docVars, pending, remoteVars, rowDeleted>>

rowAssign(obj) ==
    /\ rowData' = assign(rowData, obj)
    /\ last' = Returned("row.assign", obj, UndefStr)
    /\ UNCHANGED <<auth, docVars, pending, remoteVars, rowDeleted>>

rowToObject ==
    /\ last' = Returned("row.toObject", Null, toObject(rowData))
    /\ UNCHANGED <<auth, docVars, pending, remoteVars, rowVars>>

rowSaveRequest(raw) ==
    sheetsApi("PUT", <<"/values/", [encodeURIComponent |-> a1Range]>>,
              [valueInputOption |-> IF raw THEN "RAW" ELSE "USER_ENTERED",
               includeValuesInResponse |-> TRUE],
              [range |-> a1Range, majorDimension |-> "ROWS",
               values |-> <<elements(rowData)>>])

rowSave(raw) ==
    /\ IF rowDeletedGuard(rowDeleted) # NoError
       THEN /\ last' = Event("row.save", raw, rowDeletedGuard(rowDeleted), <<>>, Null)
            /\ UNCHANGED pending
       ELSE Suspend("row.save", "put", raw, rowSaveRequest(raw), FALSE)
    /\ UNCHANGED <<auth, docVars, remoteVars, rowVars>>

\* response.data.updatedData.values of a save
RowSaveResponses == { [updatedData |-> [values |-> <<v>>]] : v \in [0..1 -> RowValues] }

\* the echo dropped: the row keeps what it had
rowSaveResumed_keepLocal(i, data) ==
    LET call == pending[i]
    IN  /\ call.op = "row.save"
        /\ call.sentOut
        /\ remoteRow' = IF remoteRow = Null THEN Null
                        ELSE Some(data.updatedData.values[1])
        /\ pending' = RemoveAt(pending, i)
        /\ last' = Resumed("row.save", call.arg, "returned", <<>>, Some(data))
        /\ UNCHANGED <<auth, docVars, remotePerms, rowVars>>

rowSaveResumed(i, data) ==
    LET call == pending[i]
    IN  /\ call.op = "row.save"
        /\ call.sentOut
        /\ remoteRow' = IF remoteRow = Null THEN Null
                        ELSE Some(data.updatedData.values[1])
        /\ rowData' = data.updatedData.values[1]
        /\ pending' = RemoveAt(pending, i)
        /\ last' = Resumed("row.save", call.arg, "returned", <<>>, Some(data))
        /\ UNCHANGED <<auth, docVars, remotePerms, rowDeleted>>

\* the worksheet hands the request to the document's _makeSingleUpdateRequest
rowDelete ==
    /\ IF rowDeletedGuard(rowDeleted) # NoError
       THEN /\ last' = Event("row.delete", Null, rowDeletedGuard(rowDeleted), <<>>, Null)
            /\ UNCHANGED pending
       ELSE _makeSingleUpdateRequest("row.delete", Null, "deleteRange",
                [range |-> [sheetId |-> RowSheet.sheetId,
                            startRowIndex |-> rowNumber - 1,
                            endRowIndex |-> rowNumber],
                 shiftDimension |-> "ROWS"])
    /\ UNCHANGED <<auth, docVars, remoteVars, rowVars>>

rowDeleteResumed(i, data) ==
    LET call == pending[i]
    IN  /\ call.op = "row.delete"
        /\ call.sentOut
        /\ resumeCommon(i, applyEcho(Cache, data.updatedSpreadsheet), "returned", <<>>, data)
        /\ remoteRow' = Null
        /\ rowDeleted' = TRUE
        /\ pending' = RemoveAt(pending, i)
        /\ UNCHANGED <<auth, spreadsheetUrl, remotePerms, rowData>>

\* the echoes of a document that has the one worksheet of the row
RowEchoes(call) ==
    { d \in BatchUpdateResponses(call) :
        /\ d.updatedSpreadsheet.properties.title = "T1"
        /\ Len(d.updatedSpreadsheet.sheets) = 1
        /\ d.updatedSpreadsheet.sheets[1].properties.sheetId = RowSheet.sheetId }

\* a row that getRows returned: the document is loaded and has the worksheet
InitRow ==
    \E a \in {TokenAuth, JWTAuth}, values \in [0..1 -> RowValues] :
        /\ auth = a
        /\ rawProperties = Some(CHOOSE p \in SpreadsheetProperties : p.title = "T1")
        /\ rawSheets = [id \in {RowSheet.sheetId} |-> NewWorksheet(1, RowSheet, UndefStr)]
        /\ spreadsheetUrl = EditUrl
        /\ nextOid = 2
        /\ loadedBy = {"loadInfo"}
        /\ pending = <<>>
        /\ last = NoEvent
        /\ remotePerms = {}
        /\ remoteRow = Some(values)
        /\ rowDeleted = FALSE
        /\ rowData = values

NextRow ==
    \/ \E key \in RowKeys : rowGet(key)
    \/ \E key \in RowKeys, val \in RowValues : rowSet(key, val)
    \/ \E obj \in AssignArgs : rowAssign(obj)
    \/ rowToObject
    \/ Len(pending) < MaxRowCalls /\ \E raw \in BOOLEAN : rowSave(raw)
    \/ Len(pending) < MaxRowCalls /\ rowDelete
    \/ \E i \in 1..Len(pending) :
          \/ \E data \in RowSaveResponses : rowSaveResumed(i, data)
          \/ \E data \in RowEchoes(pending[i]) : rowDeleteResumed(i, data)
          \/ awaitRejected(i)

SpecRow == InitRow /\ [][NextRow]_vars

\* C4: once a delete() of the row has succeeded, every later call of save()
\* or delete() fails with the row-deleted error and issues no request; the
\* row stays deleted, so this holds for every number and order of such calls.
C4_DeletedRowRejectsCalls ==
    /\ []((last.op = "row.delete" /\ last.phase = "resume" /\ last.outcome = "returned")
            => rowDeleted)
    /\ []((rowDeleted /\ last.op \in {"row.save", "row.delete"} /\ last.phase = "call")
            => (last.outcome = ErrRowDeleted /\ last.sent = <<>>))
    /\ [][rowDeleted => (rowDeleted' /\ Len(pending') <= Len(pending))]_vars

\* C4 witness: a save() called on the deleted row has failed with the
\* row-deleted error while an earlier call still awaits its response.
C4_Witness ==
    /\ rowDeleted
    /\ last.op = "row.save" /\ last.phase = "call"
    /\ last.outcome = ErrRowDeleted
    /\ pending # <<>>

\* C12 as stated: in every state that set and assign calls reach, get(key)
\* is undefined for every key the header row does not have and is the value
\* at the position of the header for every key it has.
C12_GetUndefinedForUnknownKey ==
    \A key \in RowKeys :
        IF \E k \in 1..Len(headerValues) : headerValues[k] = key
        THEN \A k \in 1..Len(headerValues) :
                headerValues[k] = key => get(rowData, key) = at(rowData, k - 1)
        ELSE get(rowData, key) = UndefStr

\* C13: save() on a row that is not deleted issues exactly one PUT for the A1
\* range of the row carrying the elements of the backing array and changes
\* nothing locally; the response makes the first line of its updatedData the
\* backing values; a failure raises the error and leaves the backing values,
\* unsaved edits included, as they were.
C13_SaveRoundTrip ==
    [][/\ (last'.op = "row.save" /\ last'.phase = "call" /\ ~rowDeleted) =>
            /\ last'.outcome = "pending"
            /\ Len(last'.sent) = 1
            /\ last'.sent[1].method = "PUT"
            /\ last'.sent[1].url = <<"/values/", [encodeURIComponent |-> a1Range]>>
            /\ last'.sent[1].data.range = a1Range
            /\ last'.sent[1].data.values = <<elements(rowData)>>
            /\ Len(pending') = Len(pending) + 1
            /\ rowData' = rowData
       /\ (last'.op = "row.save" /\ last'.phase = "resume") =>
            /\ last'.sent = <<>>
            /\ IF last'.outcome = "returned"
               THEN rowData' = last'.resp[1].updatedData.values[1]
               ELSE /\ last'.outcome \in {ErrRequestFailed, ErrInvalidAuth}
                    /\ rowData' = rowData]_vars

\* C13 witness: a save has succeeded: the backing values are the echoed line,
\* an array of the two cells and nothing else, which the remote holds too.
C13_Witness ==
    /\ last.op = "row.save" /\ last.phase = "resume" /\ last.outcome = "returned"
    /\ rowData = last.resp[1].updatedData.values[1]
    /\ remoteRow = Some(rowData)
    /\ DOMAIN rowData = 0..1

\* C18: get, set, assign and toObject issue no request, suspend nothing, and
\* leave the remote, the cached properties, the worksheet map and the deleted
\* flag as they were; get and toObject leave the backing values too; the
\* remote line changes only when a save or a delete of the row is answered.
C18_LocalOpsAreLocal ==
    [][/\ last'.op \in {"row.get", "row.set", "row.assign", "row.toObject"} =>
            /\ last'.sent = <<>>
            /\ last'.outcome = "returned"
            /\ UNCHANGED <<pending, remoteVars, docVars, rowDeleted, auth>>
            /\ last'.op \in {"row.get", "row.toObject"} => UNCHANGED rowData
       /\ remoteRow' # remoteRow =>
            /\ last'.op \in {"row.save", "row.delete"}
            /\ last'.phase = "resume"]_vars

\* C18 witness: an edit made by set is held locally only: the remote line
\* still has the old value and no request is in flight.
C18_Witness ==
    /\ last.op = "row.set"
    /\ pending = <<>>
    /\ remoteRow # Null
    /\ elements(rowData) # remoteRow[1]

-----------------------------------------------------------------------------
\* C22: at most one delete-range request of the row succeeds, that is removes
\* a row of the remote sheet: no delete() returns on a row that an earlier
\* delete() has already deleted, whenever the calls were started.
C22_OneDeleteRange ==
    [][(last'.op = "row.delete" /\ last'.phase = "resume" /\ last'.outcome = "returned")
          => ~rowDeleted]_vars

-----------------------------------------------------------------------------
(* Failed responses: specification SpecErrors *)

ErrGoogleApi == "Google API error - [code] message"
ErrSheetPrivate == "Sheet is private. Use authentication or make public."

\* response.data of a failed response: none, one without an error member, and
\* one with the structured error
NoBody == Null
PlainBody == [text |-> "Forbidden"]
ErrorBodies == { [error |-> [code |-> c, message |-> "denied"]] : c \in {"403", "500"} }

\* the AxiosError handed to the handler: no response at all, or a response
\* with a status and a body
AxiosErrors ==
    {[response |-> Null]}
        \cup { [response |-> Some([status |-> st, data |-> d])] :
                 st \in {"400", "403", "500"},
                 d \in {NoBody, PlainBody} \cup ErrorBodies }

\* _handleAxiosErrors: what is thrown: the error it was given (its message
\* rewritten or not) or a new one
_handleAxiosErrors(error, a) ==
    LET raw == [outcome |-> ErrRequestFailed, error |-> "original",
                message |-> <<ErrRequestFailed>>]
    IN  IF error.response # Null /\ error.response[1].data # Null
        THEN IF "error" \notin DOMAIN error.response[1].data
             THEN raw
             ELSE [outcome |-> ErrGoogleApi, error |-> "original",
                   message |-> <<"Google API error - [",
                                 error.response[1].data.error.code, "] ",
                                 error.response[1].data.error.message>>]
        ELSE IF error.response # Null /\ error.response[1].status = "403"
                /\ "apiKey" \in a.fields
        THEN [outcome |-> ErrSheetPrivate, error |-> "new", message |-> <<ErrSheetPrivate>>]
        ELSE raw

\* the response to a request is a failure: the handler throws and nothing
\* catches, so the awaiting method ends with what it threw
responseFailed(i, error) ==
    LET call == pending[i]
        thrown == _handleAxiosErrors(error, auth)
    IN  /\ call.sentOut
        /\ pending' = RemoveAt(pending, i)
        /\ last' = [op |-> call.op, phase |-> "resume", arg |-> call.arg,
                    outcome |-> thrown.outcome, sent |-> <<>>, resp |-> Some(error),
                    thrown |-> thrown]
        /\ UNCHANGED <<auth, docVars, remoteVars, rowVars>>

InitErrors == \E a \in DocCredentials : InitDoc(a)

NextErrors ==
    \/ pending = <<>> /\ \E includeCells \in BOOLEAN : loadInfo(includeCells)
    \/ pending = <<>> /\ updateProperties([title |-> "T1"])
    \/ pending = <<>> /\ listPermissions
    \/ \E i \in 1..Len(pending), error \in AxiosErrors : responseFailed(i, error)
    \/ \E i \in 1..Len(pending) : awaitRejected(i) /\ ~pending[i].sentOut

SpecErrors == InitErrors /\ [][NextErrors]_vars

\* C16 as stated: for every failed response the handler raises, in this order,
\* the given error with the normalised message when the body has a structured
\* error; else the private-document error when the status is 403 and the
\* credential is an api key; else the given error as it is.
C16_ErrorHandlerOrder ==
    (last.phase = "resume" /\ last.resp # Null) =>
        LET error == last.resp[1]
            data == IF error.response = Null THEN Null ELSE error.response[1].data
        IN  IF "error" \in DOMAIN data
            THEN /\ last.outcome = ErrGoogleApi
                 /\ last.thrown.error = "original"
                 /\ last.thrown.message =
                       <<"Google API error - [", data.error.code, "] ", data.error.message>>
            ELSE IF error.response # Null /\ error.response[1].status = "403"
                    /\ "apiKey" \in auth.fields
            THEN last.outcome = ErrSheetPrivate /\ last.thrown.error = "new"
            ELSE last.outcome = ErrRequestFailed /\ last.thrown.error = "original"

-----------------------------------------------------------------------------
(* Failing requests: specification SpecFail *)

\* a constructed document whose file may be public
InitFail ==
    \E a \in DocCredentials, ids \in SUBSET {"anyoneWithLink"} :
        /\ auth = a
        /\ rawProperties = constructed.rawProperties
        /\ rawSheets = constructed.rawSheets
        /\ spreadsheetUrl = constructed.spreadsheetUrl
        /\ nextOid = 1
        /\ loadedBy = {}
        /\ pending = <<>>
        /\ last = NoEvent
        /\ remotePerms = ids
        /\ remoteRow = Some(NoRow)
        /\ rowDeleted = FALSE
        /\ rowData = NoRow

NextFail ==
    \/ pending = <<>> /\ loadInfo(FALSE)
    \/ pending = <<>> /\ updateProperties([title |-> "T1"])
    \/ pending = <<>> /\ \E p \in SheetArgs : addSheet(p)
    \/ pending = <<>> /\ deleteSheet(0)
    \/ pending = <<>> /\ _makeBatchUpdateRequest(<<"updateCells">>, UndefStr)
    \/ pending = <<>> /\ loadCells([shape |-> "single", items |-> <<A1Filter>>])
    \/ pending = <<>> /\ \E role \in {RoleFalse, "reader"} : setPublicAccessLevel(role)
    \/ \E i \in 1..Len(pending) :
          \/ \E data \in FewLoadInfoResponses(pending[i]) : loadInfoResumed(i, data)
          \/ \E data \in FewBatchUpdateResponses(pending[i]) :
                \/ simpleUpdateResumed(i, data)
                \/ deleteSheetResumed(i, data)
                \/ addSheetResumed(i, data)
          \/ addSheetHeaderResumed(i)
          \/ \E sheets \in { s \in SheetLists(TRUE) :
                               \A k \in 1..Len(s) : s[k].properties = RowSheet } :
                loadCellsResumed(i, [sheets |-> sheets])
          \/ setPublicAccessLevelListed(i)
          \/ setPublicAccessLevelDone(i)
          \/ awaitRejected(i)

SpecFail == InitFail /\ [][NextFail]_vars

\* C17: no step issues more than one request; the step in which a request of
\* an operation fails ends the operation with the error, issues no request
\* and leaves the cached properties and the worksheet map as they were; an
\* operation goes on to a further request only after a successful response,
\* and then to its next request, never to the same one again.
C17_NoRetry ==
    [][/\ Len(last'.sent) <= 1
       /\ (last'.phase = "resume" /\ last'.outcome \notin {"returned", "pending"}) =>
            /\ last'.outcome \in {ErrRequestFailed, ErrInvalidAuth}
            /\ last'.sent = <<>>
            /\ Len(pending') = Len(pending) - 1
            /\ rawProperties' = rawProperties
            /\ rawSheets' = rawSheets
       /\ (last'.phase = "resume" /\ last'.outcome = "pending") =>
            /\ last'.resp # Null
            /\ Len(pending') = Len(pending)
            /\ \E i \in 1..Len(pending) :
                  <<pending[i].stage, pending'[i].stage>> \in
                      {<<"batchUpdate", "setHeaderRow">>, <<"list", "delete">>,
                       <<"list", "create">>}]_vars

\* C17 witness: an addSheet with header values has failed on a document that
\* no response ever reached: its add request failed, no header write followed
\* and the cache is still empty.
C17_Witness ==
    /\ last.op = "addSheet" /\ last.phase = "resume"
    /\ last.arg.headerValues # Null
    /\ last.outcome = ErrRequestFailed
    /\ loadedBy = {} /\ rawProperties = Null
    /\ pending = <<>>

-----------------------------------------------------------------------------
(* Requests in flight together: specification SpecRace lets a caller start a
   load or a mutation before the response to an earlier one has arrived *)

\* the calls of one document that may wait for their responses together
MaxInFlight == 2

\* the answers to loadInfo: either title, at most the sheet 0
RaceLoadInfoResponses(call) ==
    { d \in LoadInfoResponses(call) :
        \A k \in 1..Len(d.sheets) :
            d.sheets[k].properties.title = "A" /\ d.sheets[k].properties.sheetId = 0 }

\* the echoes of a mutation: either title, at most the sheet 0
RaceBatchUpdateResponses(call) ==
    { d \in BatchUpdateResponses(call) :
        \A k \in 1..Len(d.updatedSpreadsheet.sheets) :
            /\ d.updatedSpreadsheet.sheets[k].properties.title = "A"
            /\ d.updatedSpreadsheet.sheets[k].properties.sheetId = 0 }

InitRace == InitDoc(TokenAuth)

NextRace ==
    \/ /\ Len(pending) < MaxInFlight
       /\ \/ loadInfo(FALSE)
          \/ \E t \in DocTitles : updateProperties([title |-> t])
    \/ \E i \in 1..Len(pending) :
          \/ \E data \in RaceLoadInfoResponses(pending[i]) : loadInfoResumed(i, data)
          \/ \E data \in RaceBatchUpdateResponses(pending[i]) : simpleUpdateResumed(i, data)
          \/ awaitRejected(i)

SpecRace == InitRace /\ [][NextRace]_vars

\* the document properties that the response of the event carried
arrivedProperties(event) ==
    IF event.op = "loadInfo"
    THEN event.resp[1].properties
    ELSE event.resp[1].updatedSpreadsheet.properties

\* the event is the arrival of the response to a load or to a mutation
IsArrival(event) ==
    /\ event.phase = "resume"
    /\ event.outcome = "returned"
    /\ event.op \in {"loadInfo", "updateProperties"}

\* C19: with loads and mutations of one document in flight together, every
\* response is applied as it arrives, one per step, and the cached document
\* properties are then the ones that response carried; so once all have
\* arrived the cache holds the properties of the response that arrived last,
\* be it the response to the call issued first or to the one issued last
C19_LastArrivalWins ==
    /\ IsArrival(last) => rawProperties = Some(arrivedProperties(last))
    /\ Len(pending) <= MaxInFlight

\* both calls were in flight together, the response to the one issued first
\* arrived last, after an echo with the other title, and is the one cached
C19_Witness ==
    /\ pending = <<>>
    /\ IsArrival(last)
    /\ last.late
    /\ last.op = "loadInfo"
    /\ loadedBy = {"loadInfo", "echo"}
    /\ rawProperties = Some(arrivedProperties(last))
    /\ rawProperties[1].title = "T2"
====
